---------------------------- MODULE Spec2Model ----------------------------
(***************************************************************************)
(* TicketScout: the availability checker (scraper.py), the monitor loop    *)
(* (monitor.py) and the on-demand /test check (bot_handlers.py).           *)
(*                                                                         *)
(* Python strings are modelled as sequences of one-character strings, so   *)
(* that str.lower(), str.strip() and the substring test `a in b` are       *)
(* computed character by character.  Formatted strings (f"...{x}...") are  *)
(* triples <<text before, x, text after>>.  None is the empty tuple.       *)
(***************************************************************************)
EXTENDS Integers, Sequences, FiniteSets, TLC

(***************************************************************************)
(* Bounds of the model                                                     *)
(***************************************************************************)
\* largest number of elements of a fetched document (scraper checks)
MaxNodes ==
    2
\* number of monitoring cycles (calls of check_all_urls) explored
MaxCycles ==
    2
\* number of calls made to the monitor and of /test commands explored
MaxCommands ==
    2
\* number of exceptions that leave a monitoring cycle explored
MaxFaults ==
    1
\* number of requests one caller makes through a scraper
MaxFetches ==
    3
\* number of calls of send_notification explored
MaxSends ==
    2
\* seconds of time.time() explored after the start
MaxTime ==
    6

(***************************************************************************)
(* Strings                                                                 *)
(***************************************************************************)
None ==
    <<>>

UpperLetters ==
    <<"A","B","C","D","E","F","G","H","I","J","K","L","M",
      "N","O","P","Q","R","S","T","U","V","W","X","Y","Z">>

LowerLetters ==
    <<"a","b","c","d","e","f","g","h","i","j","k","l","m",
      "n","o","p","q","r","s","t","u","v","w","x","y","z">>

Whitespace ==
    {" ", "\n", "\t"}

\* str.lower() on an upper-case letter
LowerOf ==
    [c \in {UpperLetters[i] : i \in 1..26} |->
        LowerLetters[CHOOSE i \in 1..26 : UpperLetters[i] = c]]

\* str.lower() on one character
LowerChar(c) ==
    IF c \in DOMAIN LowerOf THEN LowerOf[c] ELSE c

\* str.lower()
Lower(s) ==
    [i \in 1..Len(s) |-> LowerChar(s[i])]

\* the substring test `needle in hay`
Contains(needle, hay) ==
    \E i \in 0..(Len(hay) - Len(needle)) :
        SubSeq(hay, i + 1, i + Len(needle)) = needle

\* str.strip(): drop leading and trailing whitespace
Strip(s) ==
    LET keep == {i \in 1..Len(s) : s[i] \notin Whitespace}
    IN  IF keep = {} THEN <<>>
        ELSE SubSeq(s, CHOOSE i \in keep : \A j \in keep : i <= j,
                       CHOOSE i \in keep : \A j \in keep : j <= i)

\* f"{before}{x}{after}"
Fmt(before, x, after) ==
    <<before, x, after>>

\* a fixed string used as a status
Plain(text) ==
    <<text, <<>>, "">>

(***************************************************************************)
(* scraper.py: the indicator lists and the default title                   *)
(***************************************************************************)
BookTickets ==
    <<"B","o","o","k"," ","t","i","c","k","e","t","s">>
BookNow ==
    <<"B","o","o","k"," ","n","o","w">>
BuyTickets ==
    <<"B","u","y"," ","t","i","c","k","e","t","s">>
PurchaseTickets ==
    <<"P","u","r","c","h","a","s","e"," ","t","i","c","k","e","t","s">>
SelectSeats ==
    <<"S","e","l","e","c","t"," ","s","e","a","t","s">>
ChooseSeats ==
    <<"C","h","o","o","s","e"," ","s","e","a","t","s">>
SoldOut ==
    <<"s","o","l","d"," ","o","u","t">>
NotAvailable ==
    <<"n","o","t"," ","a","v","a","i","l","a","b","l","e">>
ComingSoon ==
    <<"c","o","m","i","n","g"," ","s","o","o","n">>
AdvanceBookingNotStarted ==
    <<"a","d","v","a","n","c","e"," ","b","o","o","k","i","n","g"," ",
      "n","o","t"," ","s","t","a","r","t","e","d">>
NoShowsAvailable ==
    <<"n","o"," ","s","h","o","w","s"," ","a","v","a","i","l","a","b","l","e">>
UnknownMovie ==
    <<"U","n","k","n","o","w","n"," ","M","o","v","i","e">>

booking_indicators ==
    <<BookTickets, BookNow, BuyTickets, PurchaseTickets, SelectSeats, ChooseSeats>>

unavailable_indicators ==
    <<SoldOut, NotAvailable, ComingSoon, AdvanceBookingNotStarted, NoShowsAvailable>>

title_selectors ==
    <<"h1[data-testid=movie-title]", "h1.movie-title", ".movie-name h1", "h1", ".title">>

(***************************************************************************)
(* The fetched document.  A document is the sequence of its elements in    *)
(* document order; an element has a kind (which selectors and tag names    *)
(* it answers to) and the text nodes below it.  Flow text outside any      *)
(* heading, button or link has kind "text".                                *)
(***************************************************************************)
\* soup.select_one(selector) matches an element of this kind
SelectorMatches(selector, kind) ==
    CASE selector = "h1[data-testid=movie-title]" -> kind = "h1[data-testid=movie-title]"
      [] selector = "h1.movie-title" -> kind = "h1.movie-title"
      [] selector = ".movie-name h1" -> kind = ".movie-name h1"
      [] selector = "h1" -> kind \in {"h1", "h1[data-testid=movie-title]",
                                      "h1.movie-title", ".movie-name h1"}
      [] selector = ".title" -> kind = ".title"

RECURSIVE Concat(_)
\* "".join(strs)
Concat(strs) ==
    IF strs = <<>> THEN <<>> ELSE Head(strs) \o Concat(Tail(strs))

RECURSIVE StripAll(_)
\* the stripped, non-empty text nodes (get_text(strip=True) keeps only these)
StripAll(strs) ==
    IF strs = <<>> THEN <<>>
    ELSE IF Strip(Head(strs)) = <<>> THEN StripAll(Tail(strs))
         ELSE <<Strip(Head(strs))>> \o StripAll(Tail(strs))

\* element.get_text(strip=True)
GetTextStrip(node) ==
    Concat(StripAll(node.strs))

\* soup.get_text(): every text node of the document, in order, unstripped
GetText(dom) ==
    Concat([i \in 1..Len(dom) |-> Concat(dom[i].strs)])

\* what select_one returns when nothing matches (Python None)
NoElement ==
    [kind |-> "None", strs |-> <<>>]

\* soup.select_one(selector): first matching element in document order, or None
SelectOne(dom, selector) ==
    LET hits == {i \in 1..Len(dom) : SelectorMatches(selector, dom[i].kind)}
    IN  IF hits = {} THEN NoElement
        ELSE dom[CHOOSE i \in hits : \A j \in hits : i <= j]

\* soup.find_all(['button', 'a'])
FindAllButtons(dom) ==
    SelectSeq(dom, LAMBDA n : n.kind \in {"button", "a"})

\* the title loop: the first selector that selects an element gives the title
ExtractTitle(dom) ==
    LET hits == {k \in 1..Len(title_selectors) : SelectOne(dom, title_selectors[k]) # NoElement}
    IN  IF hits = {} THEN UnknownMovie
        ELSE GetTextStrip(SelectOne(dom,
                 title_selectors[CHOOSE k \in hits : \A j \in hits : k <= j]))

\* indices of the indicators of `list` that occur in the lower-cased text
Matching(list, text) ==
    {k \in 1..Len(list) : Contains(Lower(list[k]), text)}

\* variant: the last match in list order instead of the first
First_last(S) ==
    CHOOSE k \in S : \A j \in S : j <= k

\* first element of a non-empty set of indices
First(S) ==
    CHOOSE k \in S : \A j \in S : k <= j

\* variant: only server errors raise
RaiseForStatus_5xx(status_code) ==
    500 <= status_code /\ status_code < 600

\* response.raise_for_status() raises HTTPError for 4xx and 5xx
RaiseForStatus(status_code) ==
    400 <= status_code /\ status_code < 600

\* variant: the result starts out as available
InitialResult_available(u) ==
    [available |-> TRUE, status |-> Plain("Unknown"), error |-> None,
     title |-> UnknownMovie, url |-> u]

\* the dictionary check_ticket_availability starts from
InitialResult(u) ==
    [available |-> FALSE, status |-> Plain("Unknown"), error |-> None,
     title |-> UnknownMovie, url |-> u]

\* variant: the unavailable indicators are looked for before the booking indicators
Classify_negative_first(u, dom) ==
    LET r0        == [InitialResult(u) EXCEPT !.title = ExtractTitle(dom)]
        page_text == Lower(GetText(dom))
        pos       == Matching(booking_indicators, page_text)
        neg       == Matching(unavailable_indicators, page_text)
    IN  IF neg # {}
        THEN [r0 EXCEPT !.status = Fmt("Not available - ",
                                       unavailable_indicators[First(neg)], "")]
        ELSE IF pos # {}
        THEN [r0 EXCEPT !.available = TRUE,
                        !.status = Fmt("Tickets available - found '",
                                       booking_indicators[First(pos)], "'")]
        ELSE [r0 EXCEPT !.status = Plain("No clear booking indicators found")]

\* the classification of a parsed document (the body of the try block after parsing)
Classify(u, dom) ==
    LET r0        == [InitialResult(u) EXCEPT !.title = ExtractTitle(dom)]
        page_text == Lower(GetText(dom))
        pos       == Matching(booking_indicators, page_text)
        buttons   == FindAllButtons(dom)
        bhits     == {b \in 1..Len(buttons) :
                        /\ GetTextStrip(buttons[b]) # <<>>
                        /\ Matching(booking_indicators, Lower(GetTextStrip(buttons[b]))) # {}}
        neg       == Matching(unavailable_indicators, page_text)
    IN  IF pos # {}
        THEN [r0 EXCEPT !.available = TRUE,
                        !.status = Fmt("Tickets available - found '",
                                       booking_indicators[First(pos)], "'")]
        ELSE IF bhits # {}
        THEN [r0 EXCEPT !.available = TRUE,
                        !.status = Fmt("Booking button found: ",
                                       GetTextStrip(buttons[First(bhits)]), "")]
        ELSE IF neg # {}
        THEN [r0 EXCEPT !.status = Fmt("Not available - ",
                                       unavailable_indicators[First(neg)], "")]
        ELSE [r0 EXCEPT !.status = Plain("No clear booking indicators found")]

\* variant: a parsing failure falls through to the default classification
check_ticket_availability_parse_default(u, f) ==
    IF f.kind = "exception"
    THEN [InitialResult(u) EXCEPT !.error = Fmt("Request error: ", f.exc, ""),
                                  !.status = Plain("Request failed")]
    ELSE IF RaiseForStatus(f.status_code)
    THEN [InitialResult(u) EXCEPT !.error = Fmt("Request error: ", "HTTPError", ""),
                                  !.status = Plain("Request failed")]
    ELSE IF f.parser_rejects
    THEN [InitialResult(u) EXCEPT !.error = Fmt("Scraping error: ", "ParserRejectedMarkup", ""),
                                  !.status = Plain("No clear booking indicators found")]
    ELSE Classify(u, f.dom)

\* BookMyShowScraper.check_ticket_availability(url) for one outcome of the fetch
check_ticket_availability(u, f) ==
    IF f.kind = "exception"
    THEN [InitialResult(u) EXCEPT !.error = Fmt("Request error: ", f.exc, ""),
                                  !.status = Plain("Request failed")]
    ELSE IF RaiseForStatus(f.status_code)
    THEN [InitialResult(u) EXCEPT !.error = Fmt("Request error: ", "HTTPError", ""),
                                  !.status = Plain("Request failed")]
    ELSE IF f.parser_rejects
    THEN [InitialResult(u) EXCEPT !.error = Fmt("Scraping error: ", "ParserRejectedMarkup", ""),
                                  !.status = Plain("Scraping failed")]
    ELSE Classify(u, f.dom)

(***************************************************************************)
(* What the network can answer to one GET                                  *)
(***************************************************************************)
\* session.get raised a requests exception
FetchException(name) ==
    [kind |-> "exception", exc |-> name, status_code |-> 0,
     parser_rejects |-> FALSE, dom |-> <<>>]

\* session.get returned a response with this status and this document
FetchResponse(code, dom) ==
    [kind |-> "response", exc |-> "", status_code |-> code,
     parser_rejects |-> FALSE, dom |-> dom]

\* a response whose markup BeautifulSoup refuses to parse
FetchUnparsable ==
    [kind |-> "response", exc |-> "", status_code |-> 200,
     parser_rejects |-> TRUE, dom |-> <<>>]

\* no fetch made yet
NoFetch ==
    [kind |-> "none", exc |-> "", status_code |-> 0,
     parser_rejects |-> FALSE, dom |-> <<>>]

\* no result yet (the local variable is unbound)
NoResult ==
    [available |-> FALSE, status |-> Plain(""), error |-> None,
     title |-> <<>>, url |-> ""]

T_Demo ==
    <<"D","e","m","o"," ","M","o","v","i","e">>
T_BookNowCaps ==
    <<"B","O","O","K"," ","N","O","W">>
T_SoldOutCaps ==
    <<"S","O","L","D"," ","O","U","T">>
T_BookT_ ==
    <<"B","o","o","k"," ","t"," ">>
T_Ickets ==
    <<"i","c","k","e","t","s">>
T_Newline ==
    <<"\n"," ">>

\* kinds of elements the bounded documents are built from
NodeKinds ==
    {"text", "a", "button", "h1", "h1.movie-title", ".title"}

\* the text nodes an element of a bounded document can hold
NodeTexts ==
    {<<T_Demo>>, <<BookTickets>>, <<T_BookNowCaps>>, <<T_SoldOutCaps>>,
     <<T_Newline, ComingSoon>>, <<T_BookT_, T_Ickets>>}

Nodes ==
    [kind : NodeKinds, strs : NodeTexts]

\* all documents of at most n elements
Docs(n) ==
    UNION {[1..k -> Nodes] : k \in 0..n}

\* the fetch outcomes explored for a single call of the checker
ScraperFetches ==
    {FetchException("Timeout"), FetchException("ConnectionError"),
     FetchResponse(404, <<>>), FetchResponse(503, <<>>), FetchUnparsable}
    \cup {FetchResponse(c, d) : c \in {200, 304}, d \in Docs(MaxNodes)}

\* the fetch outcomes explored inside the monitor loop
PageBookable ==
    <<[kind |-> "h1", strs |-> <<T_Demo>>], [kind |-> "a", strs |-> <<BookTickets>>]>>
PageSoldOut ==
    <<[kind |-> "h1", strs |-> <<T_Demo>>], [kind |-> "text", strs |-> <<T_SoldOutCaps>>]>>
MonitorFetches ==
    {FetchResponse(200, PageBookable), FetchResponse(200, PageSoldOut),
     FetchException("Timeout")}

(***************************************************************************)
(* monitor.py: BookingMonitor                                              *)
(***************************************************************************)
URL_DemonSlayer ==
    "https://in.bookmyshow.com/movies/mumbai/demon-slayer-kimetsu-no-yaiba-the-movie-infinity-castle-japanese/ET00436673"
URL_ParamSundari ==
    "https://in.bookmyshow.com/movies/mumbai/param-sundari-hindi/ET00426409"
\* a URL that is not tracked at construction
URL_Other ==
    "https://in.bookmyshow.com/movies/mumbai/other/ET00000001"

URLs ==
    {URL_DemonSlayer, URL_ParamSundari, URL_Other}

\* self.check_interval, in seconds
check_interval ==
    300

\* the argument of time.sleep in the exception handler of start_monitoring
error_cooldown ==
    60

\* TELEGRAM_CHAT_ID: unset, or a chat id
ChatIds ==
    {None, <<"4","2">>}

VARIABLES
    monitored_urls,     \* self.monitored_urls: list of tracked URLs
    previous_states,    \* self.previous_states: dict url -> last stored result
    checks_performed,   \* self.checks_performed
    notifications_sent, \* self.notifications_sent
    is_running,         \* self.is_running
    chat_id,            \* self.chat_id
    pc,                 \* position of the monitor thread in start_monitoring / check_all_urls
    idx,                \* position of the iterator of `for url in self.monitored_urls`
    url,                \* the loop variable of check_all_urls
    fetch,              \* what the network answered to the monitor's last GET
    result,             \* the local `result` of check_all_urls
    results,            \* the local `results` of check_all_urls
    e,                  \* the exception caught at `except Exception as e` in check_all_urls
    tasks,              \* tasks created on the monitor thread's event loop
    sent,               \* messages accepted by bot.send_message
    ret,                \* the last call of the command side and what it returned
    test_url,           \* the URL given to the /test command
    test_fetch,         \* what the network answers to the /test command's GET
    test_result,        \* the local `result` of test_command
    last,               \* history: the circumstances of the most recent processed check
    hist,               \* history: URLs removed, and URLs re-added after a removal
    commands,           \* history: number of calls made by the command side
    sleep_left,         \* seconds the monitor thread's current time.sleep still has to run
    cyc,                \* history: the checks of the current cycle, faults, stop requests
    now,                \* time.time(), in seconds
    last_request_time,  \* scraper.last_request_time
    rl,                 \* position of the scraper's caller in _rate_limit and the GET
    issued,             \* history: the GET requests the scraper has issued, with their times
    start_time,         \* self.start_time; 0 stands for None
    stats,              \* what the last call of get_monitoring_stats returned
    bot_scraper,        \* the rate limiter of the bot handlers' own scraper, its
                        \* caller's position and the requests it has issued
    sending             \* history: calls of send_notification and the outcome of the last

vars ==
    <<monitored_urls, previous_states, checks_performed, notifications_sent,
      is_running, chat_id, pc, idx, url, fetch, result, results, e, tasks, sent,
      ret, test_url, test_fetch, test_result, last, hist, commands,
      sleep_left, cyc, now, last_request_time, rl, issued, sending, start_time, stats, bot_scraper>>

\* the state of the scraper's rate limiter and of its caller
rate_vars ==
    <<now, last_request_time, rl, issued>>

\* everything else
program_vars ==
    <<monitored_urls, previous_states, checks_performed, notifications_sent,
      is_running, chat_id, pc, idx, url, fetch, result, results, e, tasks, sent,
      ret, test_url, test_fetch, test_result, last, hist, commands,
      sleep_left, cyc, sending, start_time, stats>>

monitor_vars ==
    <<monitored_urls, previous_states, checks_performed, notifications_sent,
      is_running, chat_id, pc, idx, url, fetch, result, results, e, tasks, sent,
      ret, last, hist, commands, sleep_left, cyc, rate_vars, sending, start_time, stats, bot_scraper>>

\* BookMyShowScraper.__init__: the rate limiter, and a caller that is not in a
\* call; time.time() is larger than any interval the program waits for
ScraperStart ==
    /\ now = 10
    /\ last_request_time = 0
    /\ rl = [pc |-> "idle", kind |-> "", wake |-> 0]
    /\ issued = <<>>

\* get_monitoring_stats has not been called
NoStats ==
    [called |-> FALSE, is_running |-> FALSE, urls_monitored |-> 0,
     checks_performed |-> 0, notifications_sent |-> 0, uptime_seconds |-> 0,
     check_interval |-> 0]

\* BookingMonitor.__init__ and BotHandlers.__init__
Init ==
    /\ monitored_urls = <<URL_DemonSlayer, URL_ParamSundari>>
    /\ previous_states = <<>>
    /\ checks_performed = 0
    /\ notifications_sent = 0
    /\ is_running = FALSE
    /\ chat_id \in ChatIds
    /\ pc = "start"
    /\ idx = 0
    /\ url = ""
    /\ fetch = NoFetch
    /\ result = NoResult
    /\ results = <<>>
    /\ e = None
    /\ tasks = <<>>
    /\ sent = <<>>
    /\ ret = [op |-> "", url |-> "", value |-> FALSE]
    /\ test_url = ""
    /\ test_fetch = NoFetch
    /\ test_result = NoResult
    /\ last = [checked |-> FALSE, url |-> "", had_previous |-> FALSE,
               previous_available |-> FALSE, readded |-> FALSE, raised |-> FALSE,
               tasks_before |-> 0, sent_before |-> 0]
    /\ hist = [removed |-> {}, readded |-> {}]
    /\ commands = 0
    /\ sleep_left = 0
    /\ cyc = [started |-> <<>>, detected |-> <<>>, in_flight |-> 0,
              faults |-> 0, fault_time |-> 0, stop_left |-> 0, stop_time |-> 0,
              cooled |-> FALSE, at_start |-> {}, removed |-> {},
              stop_requested |-> FALSE]
    /\ ScraperStart
    /\ sending = [calls |-> 0, transport |-> "", raised |-> FALSE]
    /\ start_time = 0
    /\ stats = NoStats
    /\ bot_scraper = [last_request_time |-> 0, pc |-> "idle", wake |-> 0,
                      issued |-> <<>>]

\* `x in list`
InList(x, list) ==
    \E i \in 1..Len(list) : list[i] = x

\* list.append(x)
ListAppend(list, x) ==
    Append(list, x)

\* list.remove(x): drops the first occurrence
ListRemove(list, x) ==
    LET i == CHOOSE k \in 1..Len(list) :
                 list[k] = x /\ \A j \in 1..(k - 1) : list[j] # x
    IN  SubSeq(list, 1, i - 1) \o SubSeq(list, i + 1, Len(list))

\* dict[key] = value
DictSet(d, key, value) ==
    [k \in (DOMAIN d) \cup {key} |-> IF k = key THEN value ELSE d[k]]

\* variant: the entry is kept
DictDel_keeps(d, key) ==
    d

\* variant: the whole dictionary is cleared
DictDel_clears(d, key) ==
    <<>>

\* del dict[key]
DictDel(d, key) ==
    [k \in (DOMAIN d) \ {key} |-> d[k]]

\* variant: the URL is appended without the membership test
add_url_unchecked(u) ==
    /\ monitored_urls' = ListAppend(monitored_urls, u)
    /\ ret' = [op |-> "add_url", url |-> u, value |-> TRUE]
    /\ hist' = IF u \in hist.removed
               THEN [removed |-> hist.removed \ {u}, readded |-> hist.readded \cup {u}]
               ELSE hist
    /\ UNCHANGED <<previous_states, checks_performed, notifications_sent, is_running,
                   chat_id, pc, idx, url, fetch, result, results, e, tasks, sent,
                   test_url, test_fetch, test_result, last>>
    /\ commands' = commands + 1
    /\ UNCHANGED <<sleep_left, cyc, rate_vars, sending, start_time, stats, bot_scraper>>

\* BookingMonitor.add_url(url)
add_url(u) ==
    /\ IF ~InList(u, monitored_urls)
       THEN /\ monitored_urls' = ListAppend(monitored_urls, u)
            /\ ret' = [op |-> "add_url", url |-> u, value |-> TRUE]
       ELSE /\ monitored_urls' = monitored_urls
            /\ ret' = [op |-> "add_url", url |-> u, value |-> FALSE]
    /\ hist' = IF ~InList(u, monitored_urls) /\ u \in hist.removed
               THEN [removed |-> hist.removed \ {u}, readded |-> hist.readded \cup {u}]
               ELSE hist
    /\ UNCHANGED <<previous_states, checks_performed, notifications_sent, is_running,
                   chat_id, pc, idx, url, fetch, result, results, e, tasks, sent,
                   test_url, test_fetch, test_result, last>>
    /\ commands' = commands + 1
    /\ UNCHANGED <<sleep_left, cyc, rate_vars, sending, start_time, stats, bot_scraper>>

\* BookingMonitor.remove_url(url)
remove_url(u) ==
    /\ IF InList(u, monitored_urls)
       THEN /\ monitored_urls' = ListRemove(monitored_urls, u)
            /\ previous_states' = IF u \in DOMAIN previous_states
                                  THEN DictDel(previous_states, u)
                                  ELSE previous_states
            /\ ret' = [op |-> "remove_url", url |-> u, value |-> TRUE]
       ELSE /\ monitored_urls' = monitored_urls
            /\ previous_states' = previous_states
            /\ ret' = [op |-> "remove_url", url |-> u, value |-> FALSE]
    /\ hist' = IF InList(u, monitored_urls)
               THEN [removed |-> hist.removed \cup {u}, readded |-> hist.readded \ {u}]
               ELSE hist
    /\ UNCHANGED <<checks_performed, notifications_sent, is_running,
                   chat_id, pc, idx, url, fetch, result, results, e, tasks, sent,
                   test_url, test_fetch, test_result, last>>
    /\ commands' = commands + 1
    /\ cyc' = IF InList(u, monitored_urls)
              THEN [cyc EXCEPT !.removed = @ \cup {u}]
              ELSE cyc
    /\ UNCHANGED <<sleep_left, rate_vars, sending, start_time, stats, bot_scraper>>

\* BookingMonitor.stop_monitoring()
stop_monitoring ==
    /\ is_running' = FALSE
    /\ ret' = [op |-> "stop_monitoring", url |-> "", value |-> FALSE]
    /\ commands' = commands + 1
    /\ UNCHANGED <<monitored_urls, previous_states, checks_performed, notifications_sent,
                   chat_id, pc, idx, url, fetch, result, results, e, tasks, sent,
                   test_url, test_fetch, test_result, last, hist>>
    /\ cyc' = IF pc = "sleep" /\ is_running
              THEN [cyc EXCEPT !.stop_left = sleep_left, !.stop_time = now,
                               !.stop_requested = TRUE]
              ELSE [cyc EXCEPT !.stop_requested = TRUE]
    /\ UNCHANGED <<sleep_left, rate_vars, sending, start_time, stats, bot_scraper>>

\* variant: the monitor thread's event loop is running when check_all_urls is called
loop_is_running_always ==
    TRUE

\* whether an event loop is running on the monitor thread when check_all_urls is
\* called: start_monitoring makes a new event loop and installs it, but never runs
\* it, so asyncio.create_task finds no running loop and raises RuntimeError
loop_is_running ==
    FALSE

\* variant: an exception raised in the loop body leaves the for loop
AfterCheck_escapes(raised) ==
    IF raised THEN "except" ELSE "for"

\* where control goes after the body of the for loop: the try/except is inside
\* the loop, so both the normal path and the except path go to the next iteration
AfterCheck(raised) ==
    "for"

\* what asyncio.create_task raises when no event loop is running
NoRunningLoop ==
    <<"no running event loop">>

\* the dictionary appended by the except block of check_all_urls
CheckFailed(u, message) ==
    [url |-> u, available |-> FALSE, status |-> Plain("Check failed"), error |-> message]

\* previous_states.get(url, {}).get('available', False)
PreviousAvailable(states, u) ==
    IF u \in DOMAIN states THEN states[u].available ELSE FALSE

\* the text built by send_availability_notification
notification_message(r) ==
    [title |-> r.title, status |-> r.status, url |-> r.url]

\* start_monitoring up to the while loop
StartMonitoring ==
    /\ pc = "start"
    /\ is_running' = TRUE
    /\ pc' = "while"
    /\ UNCHANGED <<monitored_urls, previous_states, checks_performed, notifications_sent,
                   chat_id, idx, url, fetch, result, results, e, tasks, sent,
                   ret, test_url, test_fetch, test_result, last, hist, commands>>
    /\ start_time' = now
    /\ UNCHANGED <<sleep_left, cyc, rate_vars, sending, stats, bot_scraper>>

\* `while self.is_running:` and, when it holds, the entry of check_all_urls;
\* when it fails, the finally block
WhileTest ==
    /\ pc = "while"
    /\ IF is_running
       THEN /\ checks_performed < MaxCycles
            /\ results' = <<>>
            /\ idx' = 0
            /\ pc' = "for"
            /\ UNCHANGED is_running
       ELSE /\ is_running' = FALSE
            /\ pc' = "stopped"
            /\ UNCHANGED <<results, idx>>
    /\ UNCHANGED <<monitored_urls, previous_states, checks_performed, notifications_sent,
                   chat_id, url, fetch, result, e, tasks, sent,
                   ret, test_url, test_fetch, test_result, last, hist, commands>>
    /\ cyc' = IF is_running
              THEN [cyc EXCEPT !.started = <<>>, !.detected = <<>>,
                               !.at_start = {monitored_urls[i] : i \in 1..Len(monitored_urls)},
                               !.removed = {}]
              ELSE cyc
    /\ UNCHANGED <<sleep_left, rate_vars, sending, start_time, stats, bot_scraper>>

\* variant: the next check is started without waiting for the previous one
ForNext_concurrent ==
    /\ pc \in {"for", "check"}
    /\ IF idx < Len(monitored_urls)
       THEN /\ url' = monitored_urls[idx + 1]
            /\ idx' = idx + 1
            /\ pc' = "check"
            /\ cyc' = [cyc EXCEPT !.started = Append(@, monitored_urls[idx + 1]),
                                  !.in_flight = @ + 1]
            /\ UNCHANGED <<checks_performed, sleep_left>>
       ELSE /\ checks_performed' = checks_performed + 1
            /\ pc' = "sleep"
            /\ sleep_left' = check_interval
            /\ UNCHANGED <<url, idx, cyc>>
    /\ UNCHANGED <<monitored_urls, previous_states, notifications_sent, is_running,
                   chat_id, fetch, result, results, e, tasks, sent,
                   ret, test_url, test_fetch, test_result, last, hist, commands>>
    /\ UNCHANGED <<rate_vars, sending, start_time, stats, bot_scraper>>

\* variant: the counter is incremented per checked URL
ForNext_counts_urls ==
    /\ pc = "for"
    /\ IF idx < Len(monitored_urls)
       THEN /\ url' = monitored_urls[idx + 1]
            /\ idx' = idx + 1
            /\ pc' = "check"
            /\ cyc' = [cyc EXCEPT !.started = Append(@, monitored_urls[idx + 1]),
                                  !.in_flight = @ + 1]
            /\ checks_performed' = checks_performed + 1
            /\ UNCHANGED sleep_left
       ELSE /\ UNCHANGED checks_performed
            /\ pc' = "sleep"
            /\ sleep_left' = check_interval
            /\ UNCHANGED <<url, idx, cyc>>
    /\ UNCHANGED <<monitored_urls, previous_states, notifications_sent, is_running,
                   chat_id, fetch, result, results, e, tasks, sent,
                   ret, test_url, test_fetch, test_result, last, hist, commands>>
    /\ UNCHANGED <<rate_vars, sending, start_time, stats, bot_scraper>>

\* `for url in self.monitored_urls:` takes the next element and the scraper is
\* called, or the list is exhausted and check_all_urls returns
ForNext ==
    /\ pc = "for"
    /\ IF idx < Len(monitored_urls)
       THEN /\ url' = monitored_urls[idx + 1]
            /\ idx' = idx + 1
            /\ pc' = "check"
            /\ cyc' = [cyc EXCEPT !.started = Append(@, monitored_urls[idx + 1]),
                                  !.in_flight = @ + 1]
            /\ UNCHANGED <<checks_performed, sleep_left>>
       ELSE /\ checks_performed' = checks_performed + 1
            /\ pc' = "sleep"
            /\ sleep_left' = check_interval
            /\ UNCHANGED <<url, idx, cyc>>
    /\ UNCHANGED <<monitored_urls, previous_states, notifications_sent, is_running,
                   chat_id, fetch, result, results, e, tasks, sent,
                   ret, test_url, test_fetch, test_result, last, hist, commands>>
    /\ UNCHANGED <<rate_vars, sending, start_time, stats, bot_scraper>>

\* self.scraper.check_ticket_availability on the outcomes the monitor explores
\* (the same function, tabulated once)
scraper_check ==
    [u \in URLs, f \in MonitorFetches |-> check_ticket_availability(u, f)]

\* the scraper returns and the rest of the loop body runs
CheckReturn(f) ==
    /\ pc = "check"
    /\ LET r        == scraper_check[url, f]
           notify   == r.available /\ ~PreviousAvailable(previous_states, url)
           raises   == notify /\ ~loop_is_running
       IN  /\ fetch' = f
           /\ result' = r
           /\ IF raises
              THEN /\ e' = NoRunningLoop
                   /\ results' = Append(Append(results, r), CheckFailed(url, NoRunningLoop))
                   /\ UNCHANGED <<tasks, previous_states>>
              ELSE /\ e' = None
                   /\ results' = Append(results, r)
                   /\ tasks' = IF notify THEN Append(tasks, r) ELSE tasks
                   /\ previous_states' = DictSet(previous_states, url, r)
           /\ last' = [checked |-> TRUE, url |-> url,
                       had_previous |-> url \in DOMAIN previous_states,
                       previous_available |-> PreviousAvailable(previous_states, url),
                       readded |-> url \in hist.readded, raised |-> raises,
                       tasks_before |-> Len(tasks), sent_before |-> Len(sent)]
           /\ hist' = [hist EXCEPT !.readded = hist.readded \ {url}]
           /\ cyc' = [cyc EXCEPT !.in_flight = @ - 1,
                                 !.detected = IF /\ url \in DOMAIN previous_states
                                                 /\ ~previous_states[url].available
                                                 /\ r.available
                                              THEN Append(@, r) ELSE @]
    /\ pc' = AfterCheck(e' # None)
    /\ UNCHANGED <<monitored_urls, checks_performed, notifications_sent, is_running,
                   chat_id, idx, url, sent, ret, test_url, test_fetch, test_result, commands>>
    /\ UNCHANGED <<sleep_left, rate_vars, sending, start_time, stats, bot_scraper>>

\* time.sleep(self.check_interval) returns
SleepDone ==
    /\ pc = "sleep"
    /\ sleep_left = 0
    /\ pc' = "while"
    /\ UNCHANGED <<sleep_left, cyc, rate_vars, sending, start_time, stats, bot_scraper>>
    /\ UNCHANGED <<monitored_urls, previous_states, checks_performed, notifications_sent,
                   is_running, chat_id, idx, url, fetch, result, results, e, tasks, sent,
                   ret, test_url, test_fetch, test_result, last, hist, commands>>

\* the amounts of time that pass in one step while the monitor thread sleeps
SleepSteps ==
    {60, 300}

\* time passes while the monitor thread is inside time.sleep; nothing wakes the
\* thread before the whole duration has run
Elapse(d) ==
    /\ pc \in {"sleep", "cooldown"}
    /\ sleep_left > 0
    /\ sleep_left' = IF d < sleep_left THEN sleep_left - d ELSE 0
    /\ now' = now + (sleep_left - sleep_left')
    /\ UNCHANGED <<pc, cyc>>
    /\ UNCHANGED <<monitored_urls, previous_states, checks_performed, notifications_sent,
                   is_running, chat_id, idx, url, fetch, result, results, e, tasks, sent,
                   ret, test_url, test_fetch, test_result, last, hist, commands>>
    /\ UNCHANGED <<last_request_time, rl, issued, sending, start_time, stats, bot_scraper>>

\* variant: no handler around the cycle, the exception ends the loop
AfterCycleException_exits ==
    "stopped"

\* where control goes when an exception leaves the cycle: the handler inside the
\* while loop
AfterCycleException ==
    "cooldown"

\* an exception leaves check_all_urls from outside the per-URL try block (for
\* instance MemoryError); `except Exception` in start_monitoring logs it and
\* calls time.sleep(60)
CycleRaises ==
    /\ pc = "for"
    /\ cyc.faults < MaxFaults
    /\ pc' = AfterCycleException
    /\ sleep_left' = IF AfterCycleException = "cooldown" THEN error_cooldown ELSE 0
    /\ is_running' = IF AfterCycleException = "cooldown" THEN is_running ELSE FALSE
    /\ cyc' = [cyc EXCEPT !.faults = @ + 1, !.fault_time = now]
    /\ UNCHANGED <<monitored_urls, previous_states, checks_performed, notifications_sent,
                   chat_id, idx, url, fetch, result, results, e, tasks, sent,
                   ret, test_url, test_fetch, test_result, last, hist, commands>>
    /\ UNCHANGED <<rate_vars, sending, start_time, stats, bot_scraper>>

\* time.sleep(60) of the exception handler returns and the while loop goes on
CooldownDone ==
    /\ pc = "cooldown"
    /\ sleep_left = 0
    /\ pc' = "while"
    /\ cyc' = [cyc EXCEPT !.cooled = TRUE]
    /\ UNCHANGED sleep_left
    /\ UNCHANGED <<monitored_urls, previous_states, checks_performed, notifications_sent,
                   is_running, chat_id, idx, url, fetch, result, results, e, tasks, sent,
                   ret, test_url, test_fetch, test_result, last, hist, commands>>
    /\ UNCHANGED <<rate_vars, sending, start_time, stats, bot_scraper>>

\* URLs given to /test: a tracked one, one in capitals, one of another site
URL_Capitals ==
    "HTTPS://IN.BOOKMYSHOW.COM/MOVIES/X"
URL_Example ==
    "https://example.com/movie"
TestUrls ==
    {URL_ParamSundari, URL_Capitals, URL_Example}

\* the characters of the URLs given to /test
UrlText ==
    [u \in TestUrls |->
        IF u = URL_ParamSundari THEN
        <<"h","t","t","p","s",":","/","/","i","n",".","b","o","o","k","m","y",
          "s","h","o","w",".","c","o","m","/","m","o","v","i","e","s","/","m",
          "u","m","b","a","i","/","p","a","r","a","m","-","s","u","n","d","a",
          "r","i","-","h","i","n","d","i","/","E","T","0","0","4","2","6","4",
          "0","9">>
        ELSE IF u = URL_Capitals THEN
        <<"H","T","T","P","S",":","/","/","I","N",".","B","O","O","K","M","Y",
          "S","H","O","W",".","C","O","M","/","M","O","V","I","E","S","/",
          "X">>
        ELSE
        <<"h","t","t","p","s",":","/","/","e","x","a","m","p","l","e",".","c",
          "o","m","/","m","o","v","i","e">>]

\* what follows /test in the message: nothing, or one URL
TestArgs ==
    {<<>>} \cup {<<u>> : u \in TestUrls}

BookMyShowCom ==
    <<"b","o","o","k","m","y","s","h","o","w",".","c","o","m">>

\* 'bookmyshow.com' in test_url.lower()
IsBookMyShowUrl(u) ==
    Contains(BookMyShowCom, Lower(UrlText[u]))

\* self.scraper.check_ticket_availability of the bot handlers, tabulated
test_check ==
    [u \in TestUrls, f \in MonitorFetches |-> check_ticket_availability(u, f)]

\* variant: /test records its result as the URL's stored state
test_command_stores(args, f) ==
    /\ IF args = <<>>
       THEN /\ ret' = [op |-> "test_command", url |-> "", value |-> FALSE]
            /\ UNCHANGED <<test_url, test_fetch, test_result, previous_states>>
       ELSE /\ test_url' = args[1]
            /\ IF ~IsBookMyShowUrl(args[1])
               THEN /\ ret' = [op |-> "test_command", url |-> args[1], value |-> FALSE]
                    /\ UNCHANGED <<test_fetch, test_result, previous_states>>
               ELSE /\ test_fetch' = f
                    /\ test_result' = test_check[args[1], f]
                    /\ previous_states' = DictSet(previous_states, args[1], test_check[args[1], f])
                    /\ ret' = [op |-> "test_command", url |-> args[1], value |-> TRUE]
    /\ commands' = commands + 1
    /\ UNCHANGED <<monitored_urls, checks_performed, notifications_sent,
                   is_running, chat_id, pc, idx, url, fetch, result, results, e, tasks,
                   sent, last, hist, sleep_left, cyc, rate_vars, sending, start_time, stats, bot_scraper>>

\* BotHandlers.test_command: without arguments the usage text is sent; a URL
\* that does not name bookmyshow.com is refused; otherwise the handlers' own
\* scraper checks the URL and the result is sent back to the user.  ret.value
\* tells whether the check was made.
test_command(args, f) ==
    /\ IF args = <<>>
       THEN /\ ret' = [op |-> "test_command", url |-> "", value |-> FALSE]
            /\ UNCHANGED <<test_url, test_fetch, test_result>>
       ELSE /\ test_url' = args[1]
            /\ IF ~IsBookMyShowUrl(args[1])
               THEN /\ ret' = [op |-> "test_command", url |-> args[1], value |-> FALSE]
                    /\ UNCHANGED <<test_fetch, test_result>>
               ELSE /\ test_fetch' = f
                    /\ test_result' = test_check[args[1], f]
                    /\ ret' = [op |-> "test_command", url |-> args[1], value |-> TRUE]
    /\ commands' = commands + 1
    /\ UNCHANGED <<monitored_urls, previous_states, checks_performed, notifications_sent,
                   is_running, chat_id, pc, idx, url, fetch, result, results, e, tasks,
                   sent, last, hist, sleep_left, cyc, rate_vars, sending, start_time, stats, bot_scraper>>

\* BookingMonitor.get_monitoring_stats()
get_monitoring_stats ==
    /\ stats' = [called |-> TRUE,
                 is_running |-> is_running,
                 urls_monitored |-> Len(monitored_urls),
                 checks_performed |-> checks_performed,
                 notifications_sent |-> notifications_sent,
                 uptime_seconds |-> IF start_time # 0 THEN now - start_time ELSE 0,
                 check_interval |-> check_interval]
    /\ ret' = [op |-> "get_monitoring_stats", url |-> "", value |-> TRUE]
    /\ commands' = commands + 1
    /\ UNCHANGED <<monitored_urls, previous_states, checks_performed, notifications_sent,
                   is_running, chat_id, pc, idx, url, fetch, result, results, e, tasks,
                   sent, test_url, test_fetch, test_result, last, hist, sleep_left, cyc,
                   rate_vars, sending, start_time, bot_scraper>>

\* the steps of the monitor thread
MonitorStep ==
    \/ StartMonitoring
    \/ WhileTest
    \/ ForNext
    \/ \E f \in MonitorFetches : CheckReturn(f)
    \/ SleepDone
    \/ Elapse(check_interval)

\* the calls the command side can make at any time
CommandStep ==
    /\ commands < MaxCommands
    /\ \/ \E u \in URLs : add_url(u)
       \/ \E u \in URLs : remove_url(u)
       \/ stop_monitoring

Next ==
    \/ MonitorStep
    \/ CommandStep

Spec ==
    Init /\ [][Next]_vars

\* the monitor thread keeps being scheduled
FairSpec ==
    Spec /\ WF_vars(MonitorStep)

\* the monitor loop with the passing of time during its sleeps, exceptions
\* leaving a cycle, and stop requests
TimedNext ==
    \/ MonitorStep
    \/ \E d \in SleepSteps : Elapse(d)
    \/ CycleRaises
    \/ CooldownDone
    \/ commands < MaxCommands /\ stop_monitoring

TimedSpec ==
    Init /\ [][TimedNext]_vars

\* the monitor loop, the calls that change the tracked list, and calls of
\* get_monitoring_stats at any time
StatsNext ==
    \/ MonitorStep
    \/ /\ commands < MaxCommands
       /\ \/ \E u \in URLs : add_url(u)
          \/ \E u \in URLs : remove_url(u)
          \/ get_monitoring_stats

StatsSpec ==
    Init /\ [][StatsNext]_vars

\* the monitor loop and /test commands arriving at any time
TestNext ==
    \/ MonitorStep
    \/ /\ commands < MaxCommands
       /\ \E args \in TestArgs, f \in MonitorFetches : test_command(args, f)

TestSpec ==
    Init /\ [][TestNext]_vars

(***************************************************************************)
(* The notification coroutines, as they run when an event loop executes    *)
(* them                                                                    *)
(***************************************************************************)
\* what bot.send_message does with a message: Telegram accepts it, or the call
\* raises (TelegramError, network error)
Transport ==
    {"accepted", "raises"}

\* the results a notification can be built from
NotifiedResults ==
    {scraper_check[u, f] : u \in URLs, f \in MonitorFetches}

\* variant: the counter is incremented before the message is sent
send_notification_counts_first(message, transport) ==
    /\ sending.calls < MaxSends
    /\ IF chat_id = None
       THEN /\ sending' = [calls |-> sending.calls + 1, transport |-> "", raised |-> FALSE]
            /\ UNCHANGED <<sent, notifications_sent>>
       ELSE /\ sending' = [calls |-> sending.calls + 1, transport |-> transport,
                           raised |-> FALSE]
            /\ notifications_sent' = notifications_sent + 1
            /\ sent' = IF transport = "accepted"
                       THEN Append(sent, [chat_id |-> chat_id, text |-> message])
                       ELSE sent
    /\ UNCHANGED <<monitored_urls, previous_states, checks_performed,
                   is_running, chat_id, pc, idx, url, fetch, result, results, e, tasks,
                   ret, test_url, test_fetch, test_result, last, hist, commands,
                   sleep_left, cyc, rate_vars, start_time, stats, bot_scraper>>

\* BookingMonitor.send_notification(message): without a chat id nothing is
\* sent; otherwise bot.send_message is awaited and the counter incremented
\* after it, and an exception of send_message is logged and swallowed
send_notification(message, transport) ==
    /\ sending.calls < MaxSends
    /\ IF chat_id = None
       THEN /\ sending' = [calls |-> sending.calls + 1, transport |-> "", raised |-> FALSE]
            /\ UNCHANGED <<sent, notifications_sent>>
       ELSE /\ sending' = [calls |-> sending.calls + 1, transport |-> transport,
                           raised |-> FALSE]
            /\ IF transport = "accepted"
               THEN /\ sent' = Append(sent, [chat_id |-> chat_id, text |-> message])
                    /\ notifications_sent' = notifications_sent + 1
               ELSE UNCHANGED <<sent, notifications_sent>>
    /\ UNCHANGED <<monitored_urls, previous_states, checks_performed,
                   is_running, chat_id, pc, idx, url, fetch, result, results, e, tasks,
                   ret, test_url, test_fetch, test_result, last, hist, commands,
                   sleep_left, cyc, rate_vars, start_time, stats, bot_scraper>>

\* BookingMonitor.send_availability_notification(result)
send_availability_notification(r, transport) ==
    send_notification(notification_message(r), transport)

NotifyNext ==
    \E r \in NotifiedResults, transport \in Transport :
        send_availability_notification(r, transport)

NotifySpec ==
    Init /\ [][NotifyNext]_vars

(***************************************************************************)
(* The rate limiter of one scraper, used by one caller.  Time passes only  *)
(* while the caller is inside time.sleep or waits for the answer to a GET, *)
(* or between calls: the statements between the time stamp of _rate_limit  *)
(* and session.get take no time, so a request is issued at its time stamp. *)
(***************************************************************************)
\* self.min_request_interval, in seconds
min_request_interval ==
    2

\* the entry points of the scraper that fetch a page
FetchKinds ==
    {"check_ticket_availability", "get_movie_info"}

\* variant: the sleep is one second too short
sleep_time_short(current_time, last_time) ==
    min_request_interval - (current_time - last_time) - 1

\* sleep_time = self.min_request_interval - time_since_last_request
sleep_time(current_time, last_time) ==
    min_request_interval - (current_time - last_time)

\* check_ticket_availability or get_movie_info is called and enters
\* _rate_limit: the clock is read and the sleep, if any, begins
rate_limit(kind) ==
    /\ rl.pc = "idle"
    /\ Len(issued) < MaxFetches
    /\ LET current_time            == now
           time_since_last_request == current_time - last_request_time
       IN  rl' = IF time_since_last_request < min_request_interval
                 THEN [pc |-> "sleep", kind |-> kind,
                       wake |-> now + sleep_time(current_time, last_request_time)]
                 ELSE [pc |-> "stamp", kind |-> kind, wake |-> now]
    /\ UNCHANGED <<now, last_request_time, issued>>
    /\ UNCHANGED <<program_vars, bot_scraper>>

\* time.sleep(sleep_time) returns, not before the requested duration has passed
RateLimitWake ==
    /\ rl.pc = "sleep"
    /\ now >= rl.wake
    /\ rl' = [rl EXCEPT !.pc = "stamp"]
    /\ UNCHANGED <<now, last_request_time, issued>>
    /\ UNCHANGED <<program_vars, bot_scraper>>

\* self.last_request_time = time.time(), _rate_limit returns and session.get
\* sends the request
StampAndGet ==
    /\ rl.pc = "stamp"
    /\ last_request_time' = now
    /\ issued' = Append(issued, [kind |-> rl.kind, time |-> now])
    /\ rl' = [rl EXCEPT !.pc = "get"]
    /\ UNCHANGED now
    /\ UNCHANGED <<program_vars, bot_scraper>>

\* session.get returns or raises, and the entry point returns to its caller
GetReturns ==
    /\ rl.pc = "get"
    /\ rl' = [rl EXCEPT !.pc = "idle"]
    /\ UNCHANGED <<now, last_request_time, issued>>
    /\ UNCHANGED <<program_vars, bot_scraper>>

\* one second passes
Tick ==
    /\ now < 10 + MaxTime
    /\ now' = now + 1
    /\ UNCHANGED <<last_request_time, rl, issued>>
    /\ UNCHANGED <<program_vars, bot_scraper>>

\* test_command calls check_ticket_availability of the handlers' own scraper,
\* which enters its own _rate_limit
TestRateLimit ==
    /\ bot_scraper.pc = "idle"
    /\ Len(bot_scraper.issued) < MaxFetches
    /\ LET current_time            == now
           time_since_last_request == current_time - bot_scraper.last_request_time
       IN  bot_scraper' =
             IF time_since_last_request < min_request_interval
             THEN [bot_scraper EXCEPT
                     !.pc = "sleep",
                     !.wake = now + sleep_time(current_time, bot_scraper.last_request_time)]
             ELSE [bot_scraper EXCEPT !.pc = "stamp", !.wake = now]
    /\ UNCHANGED <<program_vars, rate_vars>>

\* time.sleep(sleep_time) returns in the handlers' scraper
TestRateLimitWake ==
    /\ bot_scraper.pc = "sleep"
    /\ now >= bot_scraper.wake
    /\ bot_scraper' = [bot_scraper EXCEPT !.pc = "stamp"]
    /\ UNCHANGED <<program_vars, rate_vars>>

\* the handlers' scraper stamps its own last_request_time and sends the request
TestStampAndGet ==
    /\ bot_scraper.pc = "stamp"
    /\ bot_scraper' = [bot_scraper EXCEPT
                         !.last_request_time = now,
                         !.issued = Append(@, [kind |-> "check_ticket_availability",
                                               time |-> now]),
                         !.pc = "get"]
    /\ UNCHANGED <<program_vars, rate_vars>>

\* session.get of the handlers' scraper returns or raises
TestGetReturns ==
    /\ bot_scraper.pc = "get"
    /\ bot_scraper' = [bot_scraper EXCEPT !.pc = "idle"]
    /\ UNCHANGED <<program_vars, rate_vars>>

RateNext ==
    \/ \E kind \in FetchKinds : rate_limit(kind)
    \/ RateLimitWake
    \/ StampAndGet
    \/ GetReturns
    \/ Tick

RateSpec ==
    Init /\ [][RateNext]_vars

\* the monitor loop's scraper and the bot handlers' scraper, each used by its
\* own thread, and the clock they share
ProcessNext ==
    \/ rate_limit("check_ticket_availability")
    \/ RateLimitWake
    \/ StampAndGet
    \/ GetReturns
    \/ TestRateLimit
    \/ TestRateLimitWake
    \/ TestStampAndGet
    \/ TestGetReturns
    \/ Tick

ProcessSpec ==
    Init /\ [][ProcessNext]_vars

\* a /test command has been received for a URL, and the network has its answer
ScraperInit ==
    /\ monitored_urls = <<URL_DemonSlayer, URL_ParamSundari>>
    /\ previous_states = <<>>
    /\ checks_performed = 0
    /\ notifications_sent = 0
    /\ is_running = FALSE
    /\ chat_id = None
    /\ pc = "start"
    /\ idx = 0
    /\ url = ""
    /\ fetch = NoFetch
    /\ result = NoResult
    /\ results = <<>>
    /\ e = None
    /\ tasks = <<>>
    /\ sent = <<>>
    /\ ret = [op |-> "", url |-> "", value |-> FALSE]
    /\ test_url \in {URL_DemonSlayer, URL_Other}
    /\ test_fetch \in ScraperFetches
    /\ test_result = NoResult
    /\ last = [checked |-> FALSE, url |-> "", had_previous |-> FALSE,
               previous_available |-> FALSE, readded |-> FALSE, raised |-> FALSE,
               tasks_before |-> 0, sent_before |-> 0]
    /\ hist = [removed |-> {}, readded |-> {}]
    /\ commands = 0
    /\ sleep_left = 0
    /\ cyc = [started |-> <<>>, detected |-> <<>>, in_flight |-> 0,
              faults |-> 0, fault_time |-> 0, stop_left |-> 0, stop_time |-> 0,
              cooled |-> FALSE, at_start |-> {}, removed |-> {},
              stop_requested |-> FALSE]
    /\ ScraperStart
    /\ sending = [calls |-> 0, transport |-> "", raised |-> FALSE]
    /\ start_time = 0
    /\ stats = NoStats
    /\ bot_scraper = [last_request_time |-> 0, pc |-> "idle", wake |-> 0,
                      issued |-> <<>>]

\* test_command: the scraper is called for the URL given to /test
TestCheck ==
    /\ test_fetch # NoFetch
    /\ test_result = NoResult
    /\ test_result' = check_ticket_availability(test_url, test_fetch)
    /\ UNCHANGED <<test_url, test_fetch>>
    /\ UNCHANGED monitor_vars

ScraperNext ==
    TestCheck

ScraperSpec ==
    ScraperInit /\ [][ScraperNext]_vars

(***************************************************************************)
(* Properties                                                              *)
(***************************************************************************)
\* a step in which the monitor processes the result of one check
CheckStep ==
    pc = "check" /\ pc' # "check"

\* a step in which the command side calls `op`
CallStep(op) ==
    commands' = commands + 1 /\ ret'.op = op

\* the fetch failed as the claim C6 counts failures: transport error, timeout
\* or a status outside 2xx
FetchFailed_non2xx(f) ==
    f.kind = "exception" \/ ~(200 <= f.status_code /\ f.status_code <= 299)

\* the fetch failed: transport error, timeout or a 4xx/5xx status
FetchFailed_4xx5xx(f) ==
    f.kind = "exception" \/ (400 <= f.status_code /\ f.status_code <= 599)

\* the result the claim C6 describes for a failed fetch
IsRequestFailed(r) ==
    /\ r.available = FALSE
    /\ r.status = Plain("Request failed")
    /\ r.error # None
    /\ r.title = UnknownMovie

\* the page was fetched with a 2xx status and parsed, and its text holds this indicator
TextHas(f, indicator) ==
    /\ f.kind = "response"
    /\ 200 <= f.status_code /\ f.status_code <= 299
    /\ ~f.parser_rejects
    /\ Contains(Lower(indicator), Lower(GetText(f.dom)))

\* C1: the first check of a URL with no stored previous result that returns
\* available=true neither schedules nor sends a notification.
C1_BaselineSilent ==
    [][(CheckStep /\ url \notin DOMAIN previous_states /\ result'.available)
          => (tasks' = tasks /\ sent' = sent
              /\ notifications_sent' = notifications_sent)]_vars

\* a never-stored URL has just been checked and found available
C1_Witness ==
    /\ pc = "for"
    /\ last.checked /\ ~last.had_previous
    /\ result.available /\ result.url = last.url

\* C2: for a URL with a stored previous result, one check schedules a
\* notification if and only if the stored result has available=false and the
\* new result has available=true.
C2_ScheduledIffTransition ==
    [][(CheckStep /\ url \in DOMAIN previous_states)
          => ((Len(tasks') = Len(tasks) + 1)
                <=> (~previous_states[url].available /\ result'.available))]_vars

\* C3: after a tracked URL has been processed, previous_states[url] is the
\* result that check produced, in every case.
C3_StoredIsLatest ==
    [][CheckStep
          => (url \in DOMAIN previous_states' /\ previous_states'[url] = result')]_vars

\* the stored-false to true transition of URL u has just been detected, with a
\* chat id configured
TransitionDetected(u) ==
    /\ last.checked /\ last.url = u
    /\ last.had_previous /\ ~last.previous_available
    /\ result.available /\ result.url = u
    /\ chat_id # None

\* a notification carrying the result's title, status and url is in the chat
Delivered(u) ==
    \E i \in 1..Len(sent) :
        sent[i] = [chat_id |-> chat_id, text |-> notification_message(result)]
        /\ result.url = u

\* the notification for the last result is queued on the monitor's event loop
Pending(u) ==
    \E i \in 1..Len(tasks) : tasks[i] = result /\ result.url = u

\* C4: when a check in the running loop finds a URL changed from stored false
\* to true (chat id configured), exactly one notification carrying the new
\* result's title, status and url is sent to the chat.  Stated on the state
\* right after the check: that one notification has been handed to the event
\* loop or delivered.  Tasks are created only by that check, so a notification
\* that is neither pending nor delivered then is never sent.
C4_TransitionIsNotified ==
    \A u \in URLs :
        TransitionDetected(u)
            => /\ Pending(u) \/ Delivered(u)
               /\ Len(tasks) + Len(sent) = last.tasks_before + last.sent_before + 1

\* C5: an exception while processing one URL yields the "Check failed" result
\* for that URL, sends nothing, leaves the loop in the same cycle at the next
\* URL and does not stop the monitor; without concurrent list changes every
\* tracked URL has a result at the end of the cycle.
C5_PerUrlIsolation ==
    /\ [][(CheckStep /\ e' # None)
             => /\ results'[Len(results')] =
                     [url |-> url, available |-> FALSE,
                      status |-> Plain("Check failed"), error |-> e']
                /\ tasks' = tasks /\ sent' = sent
                /\ pc' = "for" /\ idx' = idx
                /\ monitored_urls' = monitored_urls
                /\ is_running' = is_running]_vars
    /\ [][(pc = "for" /\ pc' # "for" /\ idx < Len(monitored_urls))
             => (pc' = "check" /\ url' = monitored_urls[idx + 1])]_vars
    /\ []((pc = "sleep" /\ commands = 0)
             => \A i \in 1..Len(monitored_urls) :
                    \E j \in 1..Len(results) : results[j].url = monitored_urls[i])

\* the first URL of a cycle raised and the second URL is being checked
C5_Witness ==
    /\ pc = "check"
    /\ e # None
    /\ idx = 2
    /\ Len(results) = 2
    /\ results[2].status = Plain("Check failed")
    /\ results[2].url = monitored_urls[1]

\* the result check_ticket_availability returns is a complete result for the URL
IsResultFor(r, u) ==
    /\ DOMAIN r = {"available", "status", "error", "title", "url"}
    /\ r.url = u
    /\ r.available \in BOOLEAN

C7_AddIdempotent ==
    /\ [][(CallStep("add_url") /\ InList(ret'.url, monitored_urls))
             => (monitored_urls' = monitored_urls /\ ret'.value = FALSE)]_vars
    /\ [](\A i, j \in 1..Len(monitored_urls) :
             monitored_urls[i] = monitored_urls[j] => i = j)

\* add_url has just been called for a URL that was already tracked
C7_Witness ==
    /\ ret.op = "add_url" /\ ret.value = FALSE
    /\ InList(ret.url, monitored_urls)

\* C8: remove_url discards the stored state, and the next check of a URL
\* re-added after its removal compares against "not available" like a first
\* observation and, when it finds available=true, produces no notification.
C8_ReaddResets ==
    /\ [][(CallStep("remove_url") /\ ret'.value)
             => ret'.url \notin DOMAIN previous_states']_vars
    /\ [][(CheckStep /\ url \in hist.readded)
             => /\ ~PreviousAvailable(previous_states, url)
                /\ result'.available
                     => (tasks' = tasks /\ sent' = sent)]_vars

\* a URL removed and added again has just been checked and found available
C8_Witness ==
    /\ pc = "for"
    /\ last.checked /\ last.readded
    /\ result.available /\ result.url = last.url

\* C9: remove_url of an untracked URL returns False and changes nothing;
\* remove_url of a tracked URL removes exactly that URL and its stored state.
C9_RemoveFrame ==
    [][CallStep("remove_url")
          => LET u == ret'.url
             IN  /\ checks_performed' = checks_performed
                 /\ notifications_sent' = notifications_sent
                 /\ IF ~InList(u, monitored_urls)
                    THEN /\ ret'.value = FALSE
                         /\ monitored_urls' = monitored_urls
                         /\ previous_states' = previous_states
                    ELSE /\ ret'.value = TRUE
                         /\ monitored_urls' =
                              SelectSeq(monitored_urls, LAMBDA x : x # u)
                         /\ DOMAIN previous_states' = (DOMAIN previous_states) \ {u}
                         /\ \A v \in DOMAIN previous_states' :
                                previous_states'[v] = previous_states[v]]_vars

\* a checked URL has just been removed while another URL keeps its stored state
C9_Witness ==
    /\ ret.op = "remove_url" /\ ret.value = TRUE
    /\ ret.url \notin DOMAIN previous_states
    /\ last.checked /\ last.url = ret.url /\ ~last.raised
    /\ DOMAIN previous_states # {}

\* C10: a successfully fetched page whose text holds a booking indicator is
\* reported available, whatever unavailable indicators it also holds.
C10_PositiveWins ==
    (test_result # NoResult
        /\ \E k \in 1..Len(booking_indicators) : TextHas(test_fetch, booking_indicators[k]))
        => test_result.available = TRUE

\* a page holding both a booking and an unavailable indicator was reported available
C10_Witness ==
    /\ test_result # NoResult
    /\ \E k \in 1..Len(booking_indicators) : TextHas(test_fetch, booking_indicators[k])
    /\ \E k \in 1..Len(unavailable_indicators) : TextHas(test_fetch, unavailable_indicators[k])
    /\ test_result.available = TRUE

\* the page was fetched with a 2xx status and parsed
Fetched(f) ==
    /\ f.kind = "response"
    /\ 200 <= f.status_code /\ f.status_code <= 299
    /\ ~f.parser_rejects

\* a button or link of the fetched page holds this indicator in its stripped text
ButtonHas(f, indicator) ==
    /\ Fetched(f)
    /\ \E i \in 1..Len(f.dom) :
          /\ f.dom[i].kind \in {"button", "a"}
          /\ Contains(Lower(indicator), Lower(GetTextStrip(f.dom[i])))

\* the fetched page shows a booking indicator, in its text or in a button or link
HasPositive(f) ==
    \E k \in 1..Len(booking_indicators) :
        TextHas(f, booking_indicators[k]) \/ ButtonHas(f, booking_indicators[k])

\* the fetched page shows an unavailable indicator in its text
HasNegative(f) ==
    \E k \in 1..Len(unavailable_indicators) : TextHas(f, unavailable_indicators[k])

\* the check failed: the fetch raised, the status was 4xx/5xx or parsing raised
CheckRaised(f) ==
    FetchFailed_4xx5xx(f) \/ f.parser_rejects

\* C11: a successfully fetched page with no booking indicator (in its text or
\* in a button or link) and no unavailable indicator is reported with
\* available=false, no error and the status "No clear booking indicators
\* found"; a result produced by a matched unavailable indicator or by a
\* failure never carries that status.
C11_UnknownClassification ==
    (test_result # NoResult)
        => /\ (Fetched(test_fetch) /\ ~HasPositive(test_fetch) /\ ~HasNegative(test_fetch))
                => /\ test_result.available = FALSE
                   /\ test_result.error = None
                   /\ test_result.status = Plain("No clear booking indicators found")
           /\ (HasNegative(test_fetch) \/ CheckRaised(test_fetch))
                => test_result.status # Plain("No clear booking indicators found")

\* a fetched page holding only a title was reported with the default status
C11_Witness ==
    /\ test_result # NoResult
    /\ Fetched(test_fetch) /\ Len(test_fetch.dom) > 0
    /\ ~HasPositive(test_fetch) /\ ~HasNegative(test_fetch)
    /\ test_result.status = Plain("No clear booking indicators found")

\* the indicators of a list that occur in the text of the fetched page
Occurring(list, f) ==
    {k \in 1..Len(list) : TextHas(f, list[k])}

\* C19: when several booking indicators occur in the page text, the status
\* names the one that comes first in the indicator list; when no booking
\* indicator occurs in the text or in a button or link and several unavailable
\* indicators occur, available is false and the status names the unavailable
\* indicator that comes first in its list.
C19_OrderedFirstMatch ==
    (test_result # NoResult)
        => /\ \A k \in Occurring(booking_indicators, test_fetch) :
                 (\A j \in Occurring(booking_indicators, test_fetch) : k <= j)
                    => test_result.status =
                         Fmt("Tickets available - found '", booking_indicators[k], "'")
           /\ ~HasPositive(test_fetch)
                => \A k \in Occurring(unavailable_indicators, test_fetch) :
                      (\A j \in Occurring(unavailable_indicators, test_fetch) : k <= j)
                         => /\ test_result.available = FALSE
                            /\ test_result.status =
                                 Fmt("Not available - ", unavailable_indicators[k], "")

\* a page showing no booking indicator and two unavailable indicators was
\* reported with the first of them
C19_Witness ==
    /\ test_result # NoResult
    /\ ~HasPositive(test_fetch)
    /\ Cardinality(Occurring(unavailable_indicators, test_fetch)) >= 2
    /\ test_result.status = Fmt("Not available - ", SoldOut, "")

\* C12: of any two consecutive fetches issued through one scraper by one
\* caller, by check_ticket_availability or get_movie_info, the second is
\* issued at least min_request_interval seconds after the first.
C12_RateLimited ==
    \A i \in 2..Len(issued) :
        issued[i].time - issued[i - 1].time >= min_request_interval

\* a get_movie_info request has been issued after the rate limiter slept, two
\* seconds after a check_ticket_availability request
C12_Witness ==
    \E i \in 2..Len(issued) :
        /\ issued[i - 1].kind = "check_ticket_availability"
        /\ issued[i].kind = "get_movie_info"
        /\ issued[i].time = issued[i - 1].time + min_request_interval
        /\ rl.wake = issued[i].time

\* C13: when an exception other than a user interrupt leaves the cycle logic
\* inside start_monitoring, the loop does not terminate: it waits the 60
\* seconds of the cooldown and then, unless a stop was requested, starts
\* another cycle.
C13_CooldownThenNextCycle ==
    /\ [][(cyc'.faults = cyc.faults + 1)
             => /\ pc' = "cooldown"
                /\ sleep_left' = error_cooldown
                /\ is_running' = is_running]_vars
    /\ [][(pc = "cooldown" /\ pc' # "cooldown")
             => /\ now >= cyc.fault_time + error_cooldown
                /\ pc' = "while"]_vars
    /\ [][(pc = "while" /\ pc' # "while" /\ is_running) => pc' = "for"]_vars

\* after an exception and its cooldown, a URL of the next cycle is being checked
C13_Witness ==
    /\ cyc.cooled
    /\ pc = "check"
    /\ is_running
    /\ now = cyc.fault_time + error_cooldown

\* C14: when stop_monitoring is called while the loop sleeps between two
\* cycles, the loop exits without waiting out the remainder of the sleep:
\* less time passes between the call and the exit than the sleep had left.
C14_StopInterruptsSleep ==
    (pc = "stopped" /\ cyc.stop_left > 0)
        => now - cyc.stop_time < cyc.stop_left

\* a step in which send_notification is called and returns
SendStep ==
    sending'.calls = sending.calls + 1

\* C15: send_notification never raises; without a chat id it sends nothing,
\* and a failure of send_message is swallowed, and in both cases
\* notifications_sent is unchanged; each successful send increases
\* notifications_sent by exactly one, so the counter always equals the number
\* of messages delivered.
C15_SendNotification ==
    /\ [][SendStep
             => /\ ~sending'.raised
                /\ IF chat_id # None /\ sending'.transport = "accepted"
                   THEN /\ Len(sent') = Len(sent) + 1
                        /\ notifications_sent' = notifications_sent + 1
                   ELSE /\ sent' = sent
                        /\ notifications_sent' = notifications_sent]_vars
    /\ [](notifications_sent = Len(sent))

\* with a chat id, one message was delivered and then a send_message failed
C15_Witness ==
    /\ chat_id # None
    /\ sending.calls = 2
    /\ sending.transport = "raises"
    /\ Len(sent) = 1
    /\ notifications_sent = 1

\* a step in which the monitor loop sends the request of a check
FetchStarts ==
    cyc'.in_flight = cyc.in_flight + 1

\* C16: the monitor loop has at most one fetch in flight; the URLs of a cycle
\* are checked one after another in the order of the tracked list, each check
\* starting only after the previous one has returned; and a cycle starts only
\* when the previous cycle is over.
C16_SequentialChecks ==
    /\ [](cyc.in_flight <= 1)
    /\ [][FetchStarts
             => /\ cyc.in_flight = 0
                /\ idx' = idx + 1
                /\ url' = monitored_urls[idx']
                /\ Len(results) >= idx]_vars
    /\ [][(cyc'.started = <<>> /\ cyc.started # <<>>)
             => /\ cyc.in_flight = 0
                /\ pc = "while"
                /\ sleep_left = 0]_vars
    /\ []((pc = "sleep" /\ commands = 0) => cyc.started = monitored_urls)

\* the check of the second tracked URL is in flight, the first has returned
C16_Witness ==
    /\ pc = "check"
    /\ cyc.in_flight = 1
    /\ cyc.started = monitored_urls
    /\ Len(cyc.started) = 2
    /\ \E j \in 1..Len(results) : results[j].url = monitored_urls[1]

\* the notifications handed over so far, in the order the chat gets them:
\* those delivered, then those queued on the event loop in creation order
Dispatched ==
    [i \in 1..Len(sent) |-> sent[i].text]
        \o [i \in 1..Len(tasks) |-> notification_message(tasks[i])]

\* the notifications of the transitions detected in the current cycle, in the
\* order of detection
DetectedNotifications ==
    [i \in 1..Len(cyc.detected) |-> notification_message(cyc.detected[i])]

\* C17: when several URLs change from stored false to true in one cycle (chat
\* id configured), their notifications are dispatched in the order in which
\* the transitions were detected, and a dispatch does not hold up the checks
\* of the following URLs.  Stated at the end of the cycle: the last
\* notifications handed over are those of the cycle's transitions, in order.
C17_DispatchedInDetectionOrder ==
    /\ []((pc = "sleep" /\ chat_id # None /\ Len(cyc.detected) >= 2)
             => /\ Len(Dispatched) >= Len(cyc.detected)
                /\ SubSeq(Dispatched, Len(Dispatched) - Len(cyc.detected) + 1,
                          Len(Dispatched)) = DetectedNotifications)
    /\ [][(CheckStep /\ Len(cyc'.detected) > Len(cyc.detected)) => pc' = "for"]_vars

\* C18: a failed check is recorded as available=false, so a check that finds
\* available=true right after a failed check of the same URL was stored
\* schedules a notification.
C18_NotifiedAfterFailure ==
    /\ [][(CheckStep /\ result'.error # None)
             => /\ ~result'.available
                /\ previous_states'[url] = result']_vars
    /\ [][(CheckStep /\ url \in DOMAIN previous_states
                     /\ previous_states[url].error # None
                     /\ result'.available)
             => Len(tasks') = Len(tasks) + 1]_vars

\* C20: a /test check never changes the monitor's tracked list, stored
\* previous states or counters and never sends or schedules an availability
\* notification, for any URL, tracked or not, and whatever the check returns.
C20_TestIsReadOnly ==
    [][CallStep("test_command")
          => /\ monitored_urls' = monitored_urls
             /\ previous_states' = previous_states
             /\ checks_performed' = checks_performed
             /\ notifications_sent' = notifications_sent
             /\ tasks' = tasks
             /\ sent' = sent]_vars

\* /test has just found a tracked URL available whose stored state says not
\* available
C20_Witness ==
    /\ ret.op = "test_command" /\ ret.value
    /\ InList(test_url, monitored_urls)
    /\ test_result.available
    /\ test_url \in DOMAIN previous_states
    /\ ~previous_states[test_url].available
    /\ tasks = <<>> /\ sent = <<>>

\* the status names a booking indicator that occurs in the text of the page
NamesTextIndicator(r, f) ==
    \E k \in 1..Len(booking_indicators) :
        /\ r.status = Fmt("Tickets available - found '", booking_indicators[k], "'")
        /\ Contains(Lower(booking_indicators[k]), Lower(GetText(f.dom)))

\* the status names the stripped text of a button or link of the page that
\* holds a booking indicator
NamesButtonText(r, f) ==
    \E i \in 1..Len(f.dom) :
        /\ f.dom[i].kind \in {"button", "a"}
        /\ r.status = Fmt("Booking button found: ", GetTextStrip(f.dom[i]), "")
        /\ \E k \in 1..Len(booking_indicators) :
              Contains(Lower(booking_indicators[k]), Lower(GetTextStrip(f.dom[i])))

\* C25: a result of check_ticket_availability with an error has
\* available=false; a result with available=true has no error and a status
\* that names the matched indicator or the matched button text; available is
\* never true on a failed check or on a page without a booking indicator.
C25_AvailableIsClassified ==
    (test_result # NoResult)
        => /\ test_result.error # None => test_result.available = FALSE
           /\ test_result.available = TRUE
                => /\ test_result.error = None
                   /\ test_fetch.kind = "response" /\ ~test_fetch.parser_rejects
                   /\ NamesTextIndicator(test_result, test_fetch)
                        \/ NamesButtonText(test_result, test_fetch)
           /\ (CheckRaised(test_fetch) \/ (Fetched(test_fetch) /\ ~HasPositive(test_fetch)))
                => test_result.available = FALSE

\* a page was reported available through the text of a button or link
C25_Witness ==
    /\ test_result # NoResult
    /\ test_result.available = TRUE
    /\ test_result.error = None
    /\ NamesButtonText(test_result, test_fetch)
    /\ ~NamesTextIndicator(test_result, test_fetch)

\* a step in which a call of check_all_urls completes
CycleCompletes ==
    pc = "for" /\ pc' = "sleep"

\* C26: checks_performed increases by exactly one per completed call of
\* check_all_urls, whatever the number of tracked URLs and of failed checks,
\* and changes in no other step; urls_monitored returned by
\* get_monitoring_stats equals the number of tracked URLs.
C26_CountersAndStats ==
    /\ [][CycleCompletes => checks_performed' = checks_performed + 1]_vars
    /\ [][~CycleCompletes => checks_performed' = checks_performed]_vars
    /\ [][CallStep("get_monitoring_stats")
             => /\ stats'.urls_monitored = Len(monitored_urls')
                /\ stats'.checks_performed = checks_performed']_vars

\* after a cycle over three URLs in which a check failed, the statistics
\* report one check and three URLs
C26_Witness ==
    /\ ret.op = "get_monitoring_stats"
    /\ stats.called
    /\ stats.checks_performed = 1
    /\ stats.urls_monitored = 3
    /\ Len(results) >= 3
    /\ \E j \in 1..Len(results) : results[j].error # None

\* C22: under every interleaving of remove_url and add_url with a cycle in
\* progress, every key of previous_states is a currently tracked URL; a URL
\* removed while its check is in flight has no stored state afterwards.
C22_StatesOnlyForTracked ==
    \A u \in DOMAIN previous_states : InList(u, monitored_urls)

\* the number of checks of URL u started in the current cycle
ChecksInCycle(u) ==
    Cardinality({i \in 1..Len(cyc.started) : cyc.started[i] = u})

\* URL u has been tracked since the current cycle began
TrackedThroughout(u) ==
    /\ u \in cyc.at_start
    /\ u \notin cyc.removed
    /\ InList(u, monitored_urls)

\* C23: when add_url or remove_url runs concurrently with a cycle, every URL
\* tracked from the start to the end of that cycle is checked exactly once in
\* it.  Stated when the cycle has ended.
C23_CheckedExactlyOnce ==
    (pc = "sleep")
        => \A u \in URLs : TrackedThroughout(u) => ChecksInCycle(u) = 1

\* C24: after stop_monitoring has been called at any point after the monitor
\* thread was started, even before start_monitoring has run its first
\* statement, the loop begins no new cycle, and when it has exited is_running
\* is false.
C24_StopEndsLoop ==
    /\ [][(cyc.stop_requested /\ pc = "while") => pc' # "for"]_vars
    /\ [](pc = "stopped" => ~is_running)

\* C21: any two fetches issued by the process, by the monitor loop or by a
\* /test check running at the same time, are issued at least
\* min_request_interval seconds apart.
C21_ProcessWideThrottle ==
    LET all == issued \o bot_scraper.issued
    IN  \A i, j \in 1..Len(all) :
            i # j => \/ all[i].time - all[j].time >= min_request_interval
                     \/ all[j].time - all[i].time >= min_request_interval

=============================================================================
